---------------------------- MODULE Spec2Model ----------------------------
(***************************************************************************)
(* A model of stock_bot.py: the watchlist dict, the alert cooldown state,  *)
(* the is_checking run flag, the sweep StockDipMonitor.check_stocks, the   *)
(* periodic task, the command handlers and the shutdown sequence.          *)
(*                                                                         *)
(* Scheduling.  Everything runs on one asyncio event loop.  A task keeps   *)
(* the loop from the moment it is resumed until its next real suspension:  *)
(* an await of asyncio.sleep or of a Telegram call (reply_text,            *)
(* send_message).  `await self.get_stock_data(symbol)` is no suspension:   *)
(* get_stock_data contains no await (the yfinance calls block).  The       *)
(* variable turn names the task that holds the loop, or LOOP when every    *)
(* task is suspended.  The Application is built without                    *)
(* concurrent_updates, so command handlers run one at a time in a single   *)
(* task ("handler"); the periodic check is a second task ("periodic").     *)
(*                                                                         *)
(* Units.  Time is in seconds.  pct_change and threshold are in            *)
(* hundredths of a percent (get_stock_data rounds pct_change to 2          *)
(* decimals), so -8 percent is -800.                                       *)
(***************************************************************************)
EXTENDS Integers, Sequences, FiniteSets, TLC

(***************************************************************************)
(* Bounds of the model.                                                    *)
(***************************************************************************)
\* how many times the clock advances in a behaviour
MaxTicks == 1
\* how many times /add stores a symbol that is not in the watchlist
MaxStores == 4

(***************************************************************************)
(* Program constants.                                                      *)
(***************************************************************************)
\* timedelta(hours=4), line 100
COOLDOWN == 4 * 3600
\* asyncio.sleep(900), line 263
INTERVAL == 900

Symbols == {"AAPL", "TSLA"}
NoAlert == -1
NoSymbol == "<none>"
LOOP == "loop"
Tasks == {"periodic", "handler"}

\* the symbols and the thresholds /add is called with (context.args[0] is
\* any word, float(context.args[1]) accepts any float)
AddSymbols == {"AAPL"}
AddThresholds == {0}
\* the steps by which the clock advances.  The second of asyncio.sleep(1)
\* (line 162) is below them: that sleep is a suspension that ends at any
\* later moment, and the clock need not have advanced by then
TickSteps == {INTERVAL, COOLDOWN}

(***************************************************************************)
(* The dict self.watched_stocks, as CPython 3.11 keeps it: a keys table of *)
(* `size` slots with an array of entries in insertion order.  `del` leaves *)
(* the entry's place in the array empty (Deleted); a new key is appended;  *)
(* an existing key is updated in place.  The array takes                   *)
(* USABLE_FRACTION(size) entries, the deleted ones counted; the store of a *)
(* new key into a full array builds a new table first (insertion_resize),  *)
(* into which only the present entries are copied, closed up.  Only the    *)
(* threshold of an entry is modelled (the name is used for message text    *)
(* only).                                                                  *)
(***************************************************************************)
\* the place of a deleted entry
Deleted == [key |-> NoSymbol, threshold |-> 0]

Present(e) == e.key # NoSymbol

\* list(d.items())
Items(d) == SelectSeq(d.entries, Present)

\* len(d)
Used(d) == Len(Items(d))

Has(d, s) == \E i \in DOMAIN d.entries : d.entries[i].key = s

IndexOf(d, s) == CHOOSE i \in DOMAIN d.entries : d.entries[i].key = s

\* d[s]['threshold']
Threshold(d, s) == d.entries[IndexOf(d, s)].threshold

\* how many entries a table of n slots takes: ((n) << 1) / 3
USABLE_FRACTION(n) == (n * 2) \div 3

\* the least power of two above x, from p on
RECURSIVE PowerOfTwoAbove(_, _)
PowerOfTwoAbove(p, x) == IF p > x THEN p ELSE PowerOfTwoAbove(2 * p, x)

\* the slots of a table made for minsize entries (calculate_log2_keysize):
\* 2 ^ bit_length(((minsize | 8) - 1) | 7)
calculate_keysize(minsize) ==
    PowerOfTwoAbove(8, (IF (minsize \div 8) % 2 = 1 THEN minsize ELSE minsize + 8) - 1)

\* ma_used * 3
GROWTH_RATE(d) == Used(d) * 3

\* a dict made with the given items, at most USABLE_FRACTION(8) of them (a
\* dict display, json.loads): a table of 8 slots
NewDict(items) == [entries |-> items, size |-> 8]

\* d[s] = {"threshold": th, ...}
DictSet(d, s, th) ==
    IF Has(d, s)
    THEN [d EXCEPT !.entries[IndexOf(d, s)].threshold = th]
    ELSE IF Len(d.entries) < USABLE_FRACTION(d.size)
    THEN [d EXCEPT !.entries = Append(@, [key |-> s, threshold |-> th])]
    ELSE [entries |-> Append(Items(d), [key |-> s, threshold |-> th]),
          size |-> calculate_keysize(GROWTH_RATE(d))]

\* del d[s]
DictDel(d, s) == [d EXCEPT !.entries[IndexOf(d, s)] = Deleted]

\* list(d)
Keys(d) == [i \in DOMAIN Items(d) |-> Items(d)[i].key]

(***************************************************************************)
(* The key iterator of `for symbol in self.watched_stocks.keys()`, which   *)
(* walks the dict's entry array (CPython's dictiter_iternextkey): used is  *)
(* the dict's size when the iterator was made, len the number of keys it   *)
(* still expects, and pos the index in the array it goes on from.  The     *)
(* iterator passes over the places of deleted entries.  It keeps its index *)
(* when a store builds a new table, and then stands that far into the new  *)
(* array.                                                                  *)
(***************************************************************************)
NewIter(d) == [pos |-> 0, used |-> Used(d), len |-> Used(d)]

NoIter == [pos |-> 0, used |-> 0, len |-> 0]

\* the first place at or after the iterator's index that holds an entry,
\* counted from 1; 0 when there is none
IterSlot(d, it) ==
    LET ahead == {i \in DOMAIN d.entries : i > it.pos /\ Present(d.entries[i])}
    IN IF ahead = {} THEN 0 ELSE CHOOSE i \in ahead : \A j \in ahead : i <= j

\* "RuntimeError" (dictionary changed size / keys changed during iteration),
\* "StopIteration", or "key"
IterOutcome(d, it) ==
    IF it.used # Used(d) THEN "RuntimeError"
    ELSE IF IterSlot(d, it) = 0 THEN "StopIteration"
    ELSE IF it.len = 0 THEN "RuntimeError"
    ELSE "key"

IterKey(d, it) == d.entries[IterSlot(d, it)].key

IterAdvance(d, it) == [it EXCEPT !.pos = IterSlot(d, it), !.len = it.len - 1]

(***************************************************************************)
(* What get_stock_data returns when it returns data: the fields the sweep  *)
(* reads.  ma_zero says that ma_20 rounded to 0.0, which makes             *)
(* generate_alert_message divide by zero.                                  *)
(***************************************************************************)
Obs(p, v, a, z) == [pct_change |-> p, volume |-> v, avg_volume |-> a, ma_zero |-> z]

\* the observations the fetches of the state machine draw from
Observations ==
    { Obs(-450, 150, 100, FALSE),
      Obs(-900, 150, 100, FALSE),
      Obs(-900, 110, 100, FALSE),
      Obs(-900, 150, 100, TRUE),
      Obs(-100, 150, 100, FALSE) }

\* data['volume'] / data['avg_volume'] if data['avg_volume'] > 0 else 1,
\* as a fraction <<numerator, denominator>>
volume_ratio(data) ==
    IF data.avg_volume > 0 THEN <<data.volume, data.avg_volume>> ELSE <<1, 1>>

\* ratio > 1.2
Above1_2(ratio) == ratio[1] * 10 > 12 * ratio[2]

\* the cooldown test as it would be with <= for <: the end of the fourth
\* hour counted as inside the cooldown
InCooldownInclusive(last_alert, t) == last_alert # NoAlert /\ t - last_alert <= COOLDOWN

\* last_alert and datetime.now() - last_alert < timedelta(hours=4)
InCooldown(last_alert, t) == last_alert # NoAlert /\ t - last_alert < COOLDOWN

\* StockDipMonitor.is_significant_dip, with self.watched_stocks[symbol]
\* ['threshold'], the symbol's last_alert and datetime.now() passed in
is_significant_dip(threshold, last_alert, t, data) ==
    IF data.pct_change <= -threshold
    THEN IF InCooldown(last_alert, t)
         THEN FALSE
         ELSE Above1_2(volume_ratio(data))
    ELSE FALSE

\* the severity line as it would be with < for <=: the boundaries -8 and -5
\* fall into the milder tier
severityExclusive(data) ==
    IF data.pct_change < -800 THEN "MAJOR DIP ALERT"
    ELSE IF data.pct_change < -500 THEN "SIGNIFICANT DIP"
    ELSE "DIP DETECTED"

\* the severity line of generate_alert_message
severity(data) ==
    IF data.pct_change <= -800 THEN "MAJOR DIP ALERT"
    ELSE IF data.pct_change <= -500 THEN "SIGNIFICANT DIP"
    ELSE "DIP DETECTED"

(***************************************************************************)
(* State.                                                                  *)
(***************************************************************************)
VARIABLES
    watched_stocks,  \* monitor.watched_stocks: the dict's table
    price_history,   \* monitor.price_history[s]['last_alert'], or NoAlert
    is_checking,     \* TelegramStockBot.is_checking
    running,         \* TelegramStockBot.running
    now,             \* datetime.now(), in seconds
    ticks,           \* how many times the clock has advanced
    stores,          \* how many times /add has stored a symbol that was not watched
    main,            \* where start_bot is
    cancel,          \* check_task.cancel() was called, CancelledError not yet raised
    pc,              \* where each task is
    wake,            \* when the periodic task's asyncio.sleep(900) is due
    iter,            \* each task's iterator over watched_stocks.keys()
    cur,             \* the alert a task has handed to send_message, and when
    turn,            \* the task that holds the event loop, or LOOP
    snap,            \* per task, the dict's items when its sweep began (what a
                     \* copy made at line 146 would hold; the code makes none)
    proc             \* per task, the items its sweep has taken, with the threshold
                     \* watched_stocks held for each when it was taken

vars == <<watched_stocks, price_history, is_checking, running, now, ticks, stores,
          main, cancel, pc, wake, iter, cur, turn, snap, proc>>

\* the clock and the counters, the lifecycle, the data, a sweep's own state
clock_vars == <<now, ticks, stores>>
life_vars == <<running, main, cancel>>
data_vars == <<watched_stocks, price_history>>
sweep_vars == <<iter, cur, snap, proc>>

\* the watchlist load_watched_stocks returns: the entries of default_stocks
\* whose symbols are in Symbols
LoadedStocks ==
    NewDict(<<[key |-> "AAPL", threshold |-> 300], [key |-> "TSLA", threshold |-> 500]>>)

NoSend == [symbol |-> NoSymbol, since |-> 0, severity |-> "", pct_change |-> 0]

\* what send_alert is handed at line 158: the text of generate_alert_message
\* as far as it is modelled (its severity line and its Change line), with
\* the symbol and the time of the call
generate_alert_message(s, data, t) ==
    [symbol |-> s, since |-> t, severity |-> severity(data), pct_change |-> data.pct_change]

\* the state after TelegramStockBot.__init__
Init ==
    /\ watched_stocks = LoadedStocks
    /\ price_history = [s \in Symbols |-> NoAlert]
    /\ is_checking = FALSE
    /\ running = TRUE
    /\ now = 0
    /\ ticks = 0
    /\ stores = 0
    /\ main = "init"
    /\ cancel = FALSE
    /\ pc = [t \in Tasks |-> IF t = "periodic" THEN "new" ELSE "idle"]
    /\ wake = 0
    /\ iter = [t \in Tasks |-> NoIter]
    /\ cur = [t \in Tasks |-> NoSend]
    /\ turn = LOOP
    /\ snap = [t \in Tasks |-> <<>>]
    /\ proc = [t \in Tasks |-> <<>>]

\* task t is inside check_stocks: at the for statement holding the loop
\* ("iter"), awaiting send_message ("send") or in asyncio.sleep(1) ("pace")
InSweep(t) == pc[t] \in {"iter", "send", "pace"}

(***************************************************************************)
(* The clock.                                                              *)
(***************************************************************************)
\* time is counted from the start of the bot
Tick ==
    /\ main # "init"
    /\ turn = LOOP
    /\ ticks < MaxTicks
    /\ \E d \in TickSteps : now' = now + d
    /\ ticks' = ticks + 1
    /\ UNCHANGED <<stores, data_vars, is_checking, life_vars, pc, wake, sweep_vars, turn>>

(***************************************************************************)
(* StockDipMonitor.check_stocks, run by task t.                            *)
(***************************************************************************)
\* entering check_stocks: `for symbol in self.watched_stocks.keys()` makes
\* the iterator over the live dict (no copy is taken)
BeginSweep(t) ==
    /\ iter' = [iter EXCEPT ![t] = NewIter(watched_stocks)]
    /\ snap' = [snap EXCEPT ![t] = Items(watched_stocks)]
    /\ proc' = [proc EXCEPT ![t] = <<>>]
    /\ UNCHANGED cur

\* leaving check_stocks
ClearSweep(t) ==
    /\ iter' = [iter EXCEPT ![t] = NoIter]
    /\ snap' = [snap EXCEPT ![t] = <<>>]
    /\ proc' = [proc EXCEPT ![t] = <<>>]
    /\ cur' = [cur EXCEPT ![t] = NoSend]

\* the task may be resumed with a result (no cancellation is pending for it)
Resumable(t) == turn = LOOP /\ ~(t = "periodic" /\ cancel)

\* task t executes the for statement of line 146: it holds the loop there
\* (the sweep has just begun, or the loop body ended in `continue` or in
\* the except of line 164), or its asyncio.sleep(1) of line 162 is over
AtFor(t) ==
    \/ pc[t] = "iter" /\ turn = t
    \/ pc[t] = "pace" /\ Resumable(t)

\* the for statement yields a key
Yields(t) == IterOutcome(watched_stocks, iter[t]) = "key"

\* the key it yields
Symbol(t) == IterKey(watched_stocks, iter[t])

\* the sweep takes the key
Take(t) ==
    /\ iter' = [iter EXCEPT ![t] = IterAdvance(watched_stocks, iter[t])]
    /\ proc' = [proc EXCEPT ![t] = Append(proc[t],
                    [key |-> Symbol(t), threshold |-> Threshold(watched_stocks, Symbol(t))])]

\* line 146: the for statement's next() raises RuntimeError, outside the
\* try of the loop body: the exception leaves check_stocks
IterRaises(t) ==
    /\ AtFor(t)
    /\ IterOutcome(watched_stocks, iter[t]) = "RuntimeError"
    /\ pc' = [pc EXCEPT ![t] = "exc"]
    /\ turn' = t
    /\ UNCHANGED <<data_vars, is_checking, clock_vars, life_vars, wake, sweep_vars>>

\* lines 146, 167: the iterator is exhausted, check_stocks returns
IterStops(t) ==
    /\ AtFor(t)
    /\ IterOutcome(watched_stocks, iter[t]) = "StopIteration"
    /\ pc' = [pc EXCEPT ![t] = "ret"]
    /\ turn' = t
    /\ UNCHANGED <<data_vars, is_checking, clock_vars, life_vars, wake, sweep_vars>>

\* a fetch failure as it would be if it ended the sweep instead of
\* continuing with the next key
FetchNoneAborts(t) ==
    /\ AtFor(t)
    /\ Yields(t)
    /\ Take(t)
    /\ pc' = [pc EXCEPT ![t] = "ret"]
    /\ turn' = t
    /\ UNCHANGED <<data_vars, is_checking, clock_vars, life_vars, wake, cur, snap>>

\* lines 148-150: get_stock_data returns None (no data, or any exception of
\* the fetch, lines 65-67 and 90-92): continue, without the pacing sleep
FetchNone(t) ==
    /\ AtFor(t)
    /\ Yields(t)
    /\ Take(t)
    /\ pc' = [pc EXCEPT ![t] = "iter"]
    /\ turn' = t
    /\ UNCHANGED <<data_vars, is_checking, clock_vars, life_vars, wake, cur, snap>>

\* is_significant_dip(symbol, data) as check_stocks calls it at line 156
Dips(s, data) ==
    is_significant_dip(Threshold(watched_stocks, s), price_history[s], now, data)

\* lines 148-156, 162: data, no significant dip: on to asyncio.sleep(1)
NoDip(t, data) ==
    /\ AtFor(t)
    /\ Yields(t)
    /\ ~Dips(Symbol(t), data)
    /\ Take(t)
    /\ pc' = [pc EXCEPT ![t] = "pace"]
    /\ turn' = LOOP
    /\ UNCHANGED <<data_vars, is_checking, clock_vars, life_vars, wake, cur, snap>>

\* lines 156-157, 164-165: a dip, and generate_alert_message raises
\* ZeroDivisionError at line 115 (ma_20 is 0.0): the except of the loop body
\* takes it and the loop goes on, without alert and without the pacing sleep
FormatRaises(t, data) ==
    /\ AtFor(t)
    /\ Yields(t)
    /\ Dips(Symbol(t), data)
    /\ data.ma_zero
    /\ Take(t)
    /\ pc' = [pc EXCEPT ![t] = "iter"]
    /\ turn' = t
    /\ UNCHANGED <<data_vars, is_checking, clock_vars, life_vars, wake, cur, snap>>

\* lines 156-158, 135: a dip: the message is handed to bot.send_message and
\* the task is suspended until the call returns
SendAlert(t, data) ==
    /\ AtFor(t)
    /\ Yields(t)
    /\ Dips(Symbol(t), data)
    /\ ~data.ma_zero
    /\ Take(t)
    /\ cur' = [cur EXCEPT ![t] = generate_alert_message(Symbol(t), data, now)]
    /\ pc' = [pc EXCEPT ![t] = "send"]
    /\ turn' = LOOP
    /\ UNCHANGED <<data_vars, is_checking, clock_vars, life_vars, wake, snap>>

\* the end of a delivery as it would be if last_alert were set only after
\* a delivery that succeeded
SendReturnsOnlyDelivered(t, ok) ==
    /\ pc[t] = "send"
    /\ Resumable(t)
    /\ price_history' = IF ok THEN [price_history EXCEPT ![cur[t].symbol] = now]
                             ELSE price_history
    /\ cur' = [cur EXCEPT ![t] = NoSend]
    /\ pc' = [pc EXCEPT ![t] = "pace"]
    /\ UNCHANGED <<watched_stocks, is_checking, clock_vars, life_vars, wake, iter,
                   turn, snap, proc>>

\* lines 133-142, 159-162: send_message returns (ok) or raises (send_alert
\* logs the exception and returns); last_alert is set either way; on to
\* asyncio.sleep(1)
SendReturns(t, ok) ==
    /\ pc[t] = "send"
    /\ Resumable(t)
    /\ price_history' = [price_history EXCEPT ![cur[t].symbol] = now]
    /\ cur' = [cur EXCEPT ![t] = NoSend]
    /\ pc' = [pc EXCEPT ![t] = "pace"]
    /\ UNCHANGED <<watched_stocks, is_checking, clock_vars, life_vars, wake, iter,
                   turn, snap, proc>>

(***************************************************************************)
(* TelegramStockBot.periodic_stock_check, the task "periodic".             *)
(***************************************************************************)
P == "periodic"

\* line 263: asyncio.sleep(900) is over
PeriodicWakes == pc[P] = "sleep" /\ Resumable(P) /\ now >= wake

\* line 261: `while self.running`: sleep another 15 minutes, or leave
LoopAgain ==
    IF running
    THEN pc' = [pc EXCEPT ![P] = "sleep"] /\ wake' = now + INTERVAL
    ELSE pc' = [pc EXCEPT ![P] = "done"] /\ wake' = 0

\* lines 263-265: the sleep is over and running is false: break
PeriodicStopped ==
    /\ PeriodicWakes
    /\ ~running
    /\ pc' = [pc EXCEPT ![P] = "done"]
    /\ wake' = 0
    /\ UNCHANGED <<data_vars, is_checking, clock_vars, life_vars, sweep_vars, turn>>

\* lines 267-271: the flag is clear: set it and enter check_stocks
PeriodicAcquires ==
    /\ PeriodicWakes
    /\ running
    /\ ~is_checking
    /\ is_checking' = TRUE
    /\ BeginSweep(P)
    /\ pc' = [pc EXCEPT ![P] = "iter"]
    /\ wake' = 0
    /\ turn' = P
    /\ UNCHANGED <<data_vars, clock_vars, life_vars>>

\* line 267: the flag is set: nothing is done, back to the sleep of line 263
PeriodicSkips ==
    /\ PeriodicWakes
    /\ running
    /\ is_checking
    /\ LoopAgain
    /\ UNCHANGED <<data_vars, is_checking, clock_vars, life_vars, sweep_vars, turn>>

\* lines 271, 274-275, 261: check_stocks returned; finally clears the flag
PeriodicSweepReturned ==
    /\ pc[P] = "ret" /\ turn = P
    /\ is_checking' = FALSE
    /\ ClearSweep(P)
    /\ LoopAgain
    /\ turn' = LOOP
    /\ UNCHANGED <<data_vars, clock_vars, life_vars>>

\* a failed periodic sweep as it would be if the exception left the while
\* loop (no except of line 272)
PeriodicSweepFailedEndsLoop ==
    /\ pc[P] = "exc" /\ turn = P
    /\ is_checking' = FALSE
    /\ ClearSweep(P)
    /\ pc' = [pc EXCEPT ![P] = "done"]
    /\ wake' = 0
    /\ turn' = LOOP
    /\ UNCHANGED <<data_vars, clock_vars, life_vars>>

\* a failed periodic sweep as it would be without the finally of line 275:
\* the flag stays set
PeriodicSweepFailedKeepsFlag ==
    /\ pc[P] = "exc" /\ turn = P
    /\ ClearSweep(P)
    /\ LoopAgain
    /\ turn' = LOOP
    /\ UNCHANGED <<data_vars, is_checking, clock_vars, life_vars>>

\* lines 272-275, 261: check_stocks raised; the exception is logged, finally
\* clears the flag, and the while loop goes on
PeriodicSweepFailed ==
    /\ pc[P] = "exc" /\ turn = P
    /\ is_checking' = FALSE
    /\ ClearSweep(P)
    /\ LoopAgain
    /\ turn' = LOOP
    /\ UNCHANGED <<data_vars, clock_vars, life_vars>>

\* lines 263, 277-279: CancelledError at asyncio.sleep(900): break
CancelledAsleep ==
    /\ cancel /\ turn = LOOP
    /\ pc[P] = "sleep"
    /\ pc' = [pc EXCEPT ![P] = "done"]
    /\ wake' = 0
    /\ cancel' = FALSE
    /\ UNCHANGED <<data_vars, is_checking, clock_vars, running, main, sweep_vars, turn>>

\* a cancellation inside the sweep as it would be without the finally of
\* line 275: the flag stays set
CancelledInSweepKeepsFlag ==
    /\ cancel /\ turn = LOOP
    /\ pc[P] \in {"send", "pace"}
    /\ ClearSweep(P)
    /\ pc' = [pc EXCEPT ![P] = "done"]
    /\ cancel' = FALSE
    /\ UNCHANGED <<data_vars, is_checking, clock_vars, running, main, wake, turn>>

\* CancelledError at send_message (line 135) or at asyncio.sleep(1) (line
\* 162): it is no Exception, so it passes the handlers of lines 141, 164 and
\* 272; finally (line 275) clears the flag; line 277 catches it: break
CancelledInSweep ==
    /\ cancel /\ turn = LOOP
    /\ pc[P] \in {"send", "pace"}
    /\ is_checking' = FALSE
    /\ ClearSweep(P)
    /\ pc' = [pc EXCEPT ![P] = "done"]
    /\ cancel' = FALSE
    /\ UNCHANGED <<data_vars, clock_vars, running, main, wake, turn>>

(***************************************************************************)
(* The command handlers, the task "handler".  A handler that ends with a   *)
(* reply_text is one step: nothing follows that await.                     *)
(***************************************************************************)
H == "handler"

\* the updater is polling (it is stopped at line 328 only) and the handler
\* task is free for the next update
Accepting == main \in {"run", "cancel"} /\ pc[H] = "idle" /\ turn = LOOP

\* /add as it would be if adding a symbol started its alert record afresh
add_stock_command_resets(s, th) ==
    /\ main \in {"run", "cancel"} /\ pc["handler"] = "idle" /\ turn = LOOP
    /\ Has(watched_stocks, s) \/ stores < MaxStores
    /\ watched_stocks' = DictSet(watched_stocks, s, th)
    /\ stores' = IF Has(watched_stocks, s) THEN stores ELSE stores + 1
    /\ price_history' = [price_history EXCEPT ![s] = NoAlert]
    /\ UNCHANGED <<is_checking, now, ticks, life_vars, pc, wake, sweep_vars, turn>>

\* lines 222-228: /add SYMBOL THRESHOLD NAME.  The store of line 226 may
\* build a new table under the iterator of a suspended sweep, which keeps
\* its index
add_stock_command(s, th) ==
    /\ Accepting
    /\ Has(watched_stocks, s) \/ stores < MaxStores
    /\ watched_stocks' = DictSet(watched_stocks, s, th)
    /\ stores' = IF Has(watched_stocks, s) THEN stores ELSE stores + 1
    /\ UNCHANGED <<price_history, is_checking, now, ticks, life_vars, pc, wake,
                   sweep_vars, turn>>

\* lines 219-221, 229-230: too few arguments, or float() raises ValueError:
\* a reply and nothing else
add_stock_rejected ==
    /\ Accepting
    /\ UNCHANGED vars

\* lines 236-240: /remove SYMBOL, the symbol is watched
remove_stock_command(s) ==
    /\ Accepting
    /\ Has(watched_stocks, s)
    /\ watched_stocks' = DictDel(watched_stocks, s)
    /\ UNCHANGED <<price_history, is_checking, clock_vars, life_vars, pc, wake,
                   sweep_vars, turn>>

\* lines 233-235, 241-242: no argument, or the symbol is not watched: a
\* reply and nothing else
remove_stock_rejected ==
    /\ Accepting
    /\ UNCHANGED vars

\* the Status line of /status, line 201
StatusText == IF is_checking THEN "Checking..." ELSE "Active"

\* lines 199-207: /status: a reply and nothing else
status_command ==
    /\ Accepting
    /\ UNCHANGED vars

\* lines 209-216: /list: a reply and nothing else
list_stocks_command ==
    /\ Accepting
    /\ UNCHANGED vars

\* /check while the flag is set as it would be if the trigger went on to
\* the check instead of returning
manual_check_busy_proceeds ==
    /\ main \in {"run", "cancel"} /\ pc["handler"] = "idle" /\ turn = LOOP
    /\ is_checking
    /\ pc' = [pc EXCEPT !["handler"] = "ack"]
    /\ UNCHANGED <<data_vars, is_checking, clock_vars, life_vars, wake, sweep_vars, turn>>

\* lines 245-247: /check while the flag is set: the reply "Already checking
\* stocks..." and nothing else
manual_check_busy ==
    /\ Accepting
    /\ is_checking
    /\ UNCHANGED vars

\* lines 245, 248: /check while the flag is clear: the handler awaits the
\* reply "Checking stocks manually..." BEFORE it sets the flag
manual_check_command ==
    /\ Accepting
    /\ ~is_checking
    /\ pc' = [pc EXCEPT ![H] = "ack"]
    /\ UNCHANGED <<data_vars, is_checking, clock_vars, life_vars, wake, sweep_vars, turn>>

\* lines 248-251: the reply of line 248 was sent: set the flag and enter
\* check_stocks
ManualAcquires ==
    /\ pc[H] = "ack" /\ turn = LOOP
    /\ is_checking' = TRUE
    /\ BeginSweep(H)
    /\ pc' = [pc EXCEPT ![H] = "iter"]
    /\ turn' = H
    /\ UNCHANGED <<data_vars, clock_vars, life_vars, wake>>

\* line 248: reply_text raised: the handler ends before it touched the flag
ManualAckFails ==
    /\ pc[H] = "ack" /\ turn = LOOP
    /\ pc' = [pc EXCEPT ![H] = "idle"]
    /\ UNCHANGED <<data_vars, is_checking, clock_vars, life_vars, wake, sweep_vars, turn>>

\* lines 251-252: check_stocks returned: await the reply "Manual check
\* completed", the flag still set
ManualSweepReturned ==
    /\ pc[H] = "ret" /\ turn = H
    /\ ClearSweep(H)
    /\ pc' = [pc EXCEPT ![H] = "fin"]
    /\ turn' = LOOP
    /\ UNCHANGED <<data_vars, is_checking, clock_vars, life_vars, wake>>

\* lines 252, 255-256: the reply was sent; finally clears the flag
ManualFinReturns ==
    /\ pc[H] = "fin" /\ turn = LOOP
    /\ is_checking' = FALSE
    /\ pc' = [pc EXCEPT ![H] = "idle"]
    /\ UNCHANGED <<data_vars, clock_vars, life_vars, wake, sweep_vars, turn>>

\* lines 252-254: the reply of line 252 raised: the except of line 253
\* takes it and awaits the reply "Error during check".  (check_stocks itself
\* does not raise in this task: only handlers change the dict, and the
\* application runs handlers one at a time, so none runs during this sweep.)
ManualFinFails ==
    /\ pc[H] = "fin" /\ turn = LOOP
    /\ pc' = [pc EXCEPT ![H] = "err"]
    /\ UNCHANGED <<data_vars, is_checking, clock_vars, life_vars, wake, sweep_vars, turn>>

\* lines 254-256: the reply of line 254 was sent or raised; finally clears
\* the flag
ManualErrReturns ==
    /\ pc[H] = "err" /\ turn = LOOP
    /\ is_checking' = FALSE
    /\ pc' = [pc EXCEPT ![H] = "idle"]
    /\ UNCHANGED <<data_vars, clock_vars, life_vars, wake, sweep_vars, turn>>

(***************************************************************************)
(* TelegramStockBot.start_bot and stop_bot.                                *)
(***************************************************************************)
\* lines 289-299: the application is started, the periodic task is created
\* and starts (line 261: it sleeps if running, and leaves at once if not),
\* and start_bot awaits updater.start_polling
start_bot ==
    /\ main = "init" /\ turn = LOOP
    /\ main' = "polling"
    /\ LoopAgain
    /\ UNCHANGED <<data_vars, is_checking, clock_vars, running, cancel, sweep_vars, turn>>

\* lines 299-311: start_polling returns: updates are fetched from now on,
\* and start_bot sleeps in the loop of line 310
start_polling_returns ==
    /\ main = "polling" /\ turn = LOOP
    /\ main' = "run"
    /\ UNCHANGED <<data_vars, is_checking, clock_vars, running, cancel, pc, wake,
                   sweep_vars, turn>>

\* lines 299, 313-322: start_polling raises: the except of line 313 logs
\* it and the finally sets running to false and cancels the periodic task;
\* no update is ever fetched
start_polling_raises ==
    /\ main = "polling" /\ turn = LOOP
    /\ running' = FALSE
    /\ main' = "abort"
    /\ cancel' = (pc[P] # "done")
    /\ UNCHANGED <<data_vars, is_checking, clock_vars, pc, wake, sweep_vars, turn>>

\* lines 334-337, called by the signal handler of lines 342-344.  The
\* handler is installed with signal.signal: it runs between two bytecodes
\* of whatever the main thread executes, inside a task's step as well as
\* while every task is suspended
stop_bot ==
    /\ running
    /\ running' = FALSE
    /\ UNCHANGED <<data_vars, is_checking, clock_vars, main, cancel, pc, wake,
                   sweep_vars, turn>>

\* the shutdown as it would be without check_task.cancel(): the periodic
\* task is left to its sleep
ShutDownNoCancel ==
    /\ main = "run" /\ turn = LOOP
    /\ ~running
    /\ running' = FALSE
    /\ main' = "cancel"
    /\ UNCHANGED <<data_vars, is_checking, clock_vars, cancel, pc, wake,
                   sweep_vars, turn>>

\* lines 310-322: the loop of line 310 sees running false; the finally sets
\* running to false (line 317) and calls check_task.cancel()
ShutDown ==
    /\ main = "run" /\ turn = LOOP
    /\ ~running
    /\ running' = FALSE
    /\ main' = "cancel"
    /\ cancel' = (pc[P] # "done")
    /\ UNCHANGED <<data_vars, is_checking, clock_vars, pc, wake, sweep_vars, turn>>

\* lines 322-332: the periodic task has ended; the updater and the
\* application are stopped
Stopped ==
    /\ main \in {"cancel", "abort"} /\ turn = LOOP
    /\ pc[P] = "done"
    /\ main' = "stopped"
    /\ UNCHANGED <<data_vars, is_checking, clock_vars, running, cancel, pc, wake,
                   sweep_vars, turn>>

Next ==
    \/ Tick
    \/ \E t \in Tasks : IterRaises(t)
    \/ \E t \in Tasks : IterStops(t)
    \/ \E t \in Tasks, data \in Observations : NoDip(t, data)
    \/ \E t \in Tasks, data \in Observations : SendAlert(t, data)
    \/ \E t \in Tasks, data \in Observations : FormatRaises(t, data)
    \/ \E t \in Tasks : FetchNone(t)
    \/ \E t \in Tasks, ok \in BOOLEAN : SendReturns(t, ok)
    \/ PeriodicStopped
    \/ PeriodicAcquires
    \/ PeriodicSkips
    \/ PeriodicSweepReturned
    \/ PeriodicSweepFailed
    \/ CancelledAsleep
    \/ CancelledInSweep
    \/ \E s \in AddSymbols, th \in AddThresholds : add_stock_command(s, th)
    \/ add_stock_rejected
    \/ \E s \in Symbols : remove_stock_command(s)
    \/ remove_stock_rejected
    \/ status_command
    \/ list_stocks_command
    \/ manual_check_busy
    \/ manual_check_command
    \/ ManualAcquires
    \/ ManualAckFails
    \/ ManualSweepReturned
    \/ ManualFinReturns
    \/ ManualFinFails
    \/ ManualErrReturns
    \/ start_bot
    \/ start_polling_returns
    \/ start_polling_raises
    \/ stop_bot
    \/ ShutDown
    \/ Stopped

Spec == Init /\ [][Next]_vars

(***************************************************************************)
(* Progress.  The event loop runs its ready callbacks in the order they    *)
(* became ready, so a task that can be resumed again and again is resumed: *)
(* strong fairness for the steps of each task and of start_bot.  That a    *)
(* step of a task is resumable says that the await it is suspended in      *)
(* returns (a fetch, a send_message, a reply_text, a sleep that is due, a   *)
(* pending CancelledError).  Nothing is required of the clock, of the      *)
(* signal or of the user's commands.                                       *)
(***************************************************************************)
\* a step of check_stocks by task t
SweepStep(t) ==
    \/ IterRaises(t)
    \/ IterStops(t)
    \/ FetchNone(t)
    \/ \E data \in Observations : NoDip(t, data) \/ SendAlert(t, data) \/ FormatRaises(t, data)
    \/ \E ok \in BOOLEAN : SendReturns(t, ok)

\* a step of the periodic task
PeriodicStep ==
    \/ SweepStep("periodic")
    \/ PeriodicStopped \/ PeriodicAcquires \/ PeriodicSkips
    \/ PeriodicSweepReturned \/ PeriodicSweepFailed
    \/ CancelledAsleep \/ CancelledInSweep

\* a step of manual_check_command after the trigger was accepted
HandlerStep ==
    \/ SweepStep("handler")
    \/ ManualAcquires \/ ManualSweepReturned \/ ManualFinReturns \/ ManualErrReturns

\* a step of start_bot
MainStep ==
    start_bot \/ start_polling_returns \/ start_polling_raises \/ ShutDown \/ Stopped

Fairness == SF_vars(PeriodicStep) /\ SF_vars(HandlerStep) /\ SF_vars(MainStep)

FairSpec == Spec /\ Fairness

(***************************************************************************)
(* The dip decision on its own: the handler's sweep stands at the for      *)
(* statement over a watchlist of one symbol, with a threshold, a last      *)
(* alert and a clock drawn from sets that hold the boundary cases, and     *)
(* evaluates an observation.                                               *)
(***************************************************************************)
PolicyThresholds == {0, 300, 450, 500, 800}

\* no alert yet, or an alert at time 0
PolicyLastAlerts == {NoAlert, 0}

\* the moment of the alert, 3 hours later, and around the end of the cooldown
PolicyNows == {0, 3 * 3600, COOLDOWN - 1, COOLDOWN, COOLDOWN + 1}

\* changes at and on both sides of every threshold; volume ratios below, at
\* and above 1.2; avg_volume 0
PolicyObservations ==
    { Obs(d - th, v, a, FALSE) :
        th \in PolicyThresholds, d \in {-1, 0, 1}, v \in {0, 100, 120, 121, 150}, a \in {0, 100} }

PolicyInit ==
    /\ watched_stocks \in { NewDict(<<[key |-> "AAPL", threshold |-> th]>>) :
                              th \in PolicyThresholds }
    /\ price_history \in { [s \in Symbols |-> IF s = "AAPL" THEN la ELSE NoAlert] :
                             la \in PolicyLastAlerts }
    /\ now \in PolicyNows
    /\ ticks = 0
    /\ stores = 0
    /\ is_checking = TRUE
    /\ running = TRUE
    /\ main = "run"
    /\ cancel = FALSE
    /\ pc = [t \in Tasks |-> IF t = "periodic" THEN "sleep" ELSE "iter"]
    /\ wake = now + INTERVAL
    /\ iter = [t \in Tasks |-> IF t = "handler" THEN NewIter(watched_stocks) ELSE NoIter]
    /\ cur = [t \in Tasks |-> NoSend]
    /\ turn = "handler"
    /\ snap = [t \in Tasks |-> IF t = "handler" THEN Items(watched_stocks) ELSE <<>>]
    /\ proc = [t \in Tasks |-> <<>>]

PolicyNext ==
    \/ \E data \in PolicyObservations : NoDip("handler", data)
    \/ \E data \in PolicyObservations : SendAlert("handler", data)

PolicySpec == PolicyInit /\ [][PolicyNext]_vars

(***************************************************************************)
(* Properties.                                                             *)
(***************************************************************************)

\* C1: at most one sweep is in progress in every reachable state: the
\* periodic task and the /check handler are never both inside check_stocks.
C1_AtMostOneSweep == ~(InSweep("periodic") /\ InSweep("handler"))

\* C2: two alerts for the same item are never fired within 4 hours of each
\* other: two alerts for one symbol that are in delivery at the same moment
\* were fired at least COOLDOWN apart.
C2_NoTwoAlertsWithinCooldown ==
    \A t1, t2 \in Tasks :
        (t1 # t2 /\ cur[t1].symbol # NoSymbol /\ cur[t1].symbol = cur[t2].symbol)
            => \/ cur[t2].since - cur[t1].since >= COOLDOWN
               \/ cur[t1].since - cur[t2].since >= COOLDOWN

\* task t has set is_checking and not yet passed its finally clause
Holding(t) ==
    pc[t] \in {"iter", "send", "pace", "ret", "exc"} \cup (IF t = "handler" THEN {"fin", "err"} ELSE {})

\* C3: whenever a trigger that set is_checking ends, by whichever path (the
\* sweep returned, it raised, the task was cancelled inside it), is_checking
\* is false after the step; the triggers test nothing but that flag (lines
\* 245, 267), so the next trigger is accepted.
C3_GuardReleasedOnEveryExit ==
    [][\A t \in Tasks : (Holding(t) /\ ~Holding(t)') => ~is_checking']_vars

\* C3 witness: a sweep has fired an alert and ended, no task holds the
\* guard and the flag is clear.
C3_Witness ==
    /\ \E s \in Symbols : price_history[s] # NoAlert
    /\ \A t \in Tasks : ~Holding(t)
    /\ pc["handler"] = "idle"
    /\ ~is_checking

\* C4: a trigger that finds is_checking set is rejected without side
\* effects: /check changes nothing at all, and the periodic task changes
\* nothing but its own timer, which it sets a full INTERVAL ahead.
C4_BusyTriggerHasNoEffect ==
    [][/\ manual_check_busy => UNCHANGED vars
       /\ PeriodicSkips =>
            /\ UNCHANGED <<data_vars, is_checking, sweep_vars, pc, turn>>
            /\ wake' = now' + INTERVAL]_vars

\* C4 witness: the periodic sweep is suspended with the flag set and the
\* handler is free: a /check here is rejected, and as the rejection changes
\* nothing this is also the state after it.
C4_Witness == Accepting /\ is_checking /\ InSweep("periodic")

\* C5: the failure of one item does not end the sweep: after a fetch that
\* returned None or a message that could not be built, the task is at the
\* for statement again, one key further, over the same dict; and a sweep
\* ends only when the for statement yields no key, or by cancellation.
C5_FailureIsolation ==
    [][\A t \in Tasks :
        /\ (FetchNone(t) \/ \E data \in Observations : FormatRaises(t, data))
              => /\ pc'[t] = "iter" /\ turn' = t
                 /\ watched_stocks' = watched_stocks
                 /\ iter'[t].pos > iter[t].pos
                 /\ iter'[t].len = iter[t].len - 1
        /\ (InSweep(t) /\ ~InSweep(t)')
              => \/ IterOutcome(watched_stocks, iter[t]) # "key"
                 \/ t = "periodic" /\ cancel]_vars

\* C5 witness: the first item of a sweep has failed, and the sweep is at
\* the for statement with a further key to take.
C5_Witness ==
    \E t \in Tasks : pc[t] = "iter" /\ turn = t /\ Len(proc[t]) = 1 /\ Yields(t)

\* C6: check_stocks never raises to its caller.
C6_SweepNeverRaises == \A t \in Tasks : pc[t] # "exc"

\* C7: a sweep processes the watchlist as it was when the sweep began: the
\* items it has taken are the first entries of that snapshot, with the
\* snapshot's thresholds, and when it returns it has taken them all.
C7_SweepWorksOnSnapshot ==
    \A t \in Tasks :
        /\ \A i \in DOMAIN proc[t] : i <= Len(snap[t]) /\ proc[t][i] = snap[t][i]
        /\ pc[t] = "ret" => proc[t] = snap[t]

\* the reference rule: fire = (pctChange <= -threshold) AND (volumeRatio >
\* 1.2) AND NOT (a last alert exists AND now - lastAlert < 4 hours), with
\* volumeRatio = volume / avgVolume if avgVolume > 0, and 1 otherwise
ReferenceFire(threshold, last_alert, t, data) ==
    /\ data.pct_change <= -threshold
    /\ IF data.avg_volume > 0 THEN data.volume * 10 > 12 * data.avg_volume ELSE 1 * 10 > 12
    /\ ~(last_alert # NoAlert /\ t - last_alert < 4 * 3600)

\* C8: for every observation the decision of is_significant_dip equals the
\* reference rule; a change above -threshold never fires; with a last alert
\* at T nothing fires at T + 3h, and data that qualifies fires at T + 4h + 1s.
C8_FireEqualsReference ==
    \A data \in PolicyObservations : \A i \in DOMAIN Items(watched_stocks) :
        LET s == Items(watched_stocks)[i].key
            th == Items(watched_stocks)[i].threshold
            la == price_history[s]
        IN /\ Dips(s, data) <=> ReferenceFire(th, la, now, data)
           /\ data.pct_change > -th => ~Dips(s, data)
           /\ (la # NoAlert /\ now - la = 3 * 3600) => ~Dips(s, data)
           /\ (la # NoAlert /\ now - la = 4 * 3600 + 1 /\ data.pct_change <= -th
                 /\ data.avg_volume > 0 /\ data.volume * 10 > 12 * data.avg_volume)
                => Dips(s, data)

\* C8 witness: an alert fired 4 hours and 1 second after the last one.
C8_Witness ==
    /\ pc["handler"] = "send"
    /\ cur["handler"].symbol = "AAPL"
    /\ price_history["AAPL"] # NoAlert
    /\ cur["handler"].since - price_history["AAPL"] = COOLDOWN + 1

\* C9: when the delivery of an alert ends, by success or by failure, the
\* item's last_alert is the current time and the sweep goes on to the pacing
\* sleep (only a cancellation of the task ends a delivery otherwise).
C9_LastAlertSetEitherWay ==
    [][\A t \in Tasks :
        (pc[t] = "send" /\ pc'[t] # "send")
            => \/ t = "periodic" /\ cancel
               \/ price_history'[cur[t].symbol] = now /\ pc'[t] = "pace"]_vars

\* C9 witness: a delivery has ended: the task is in the pacing sleep after
\* an item whose last_alert is the current time.
C9_Witness ==
    \E t \in Tasks :
        /\ pc[t] = "pace"
        /\ proc[t] # <<>>
        /\ price_history[proc[t][Len(proc[t])].key] = now

\* C10: a periodic sweep that raised does not end the loop: the task goes
\* back to its sleep of INTERVAL while running is true; the loop ends only
\* when running is false or the task is cancelled.
C10_LoopSurvivesBadSweep ==
    [][/\ (pc["periodic"] = "exc" /\ pc'["periodic"] # "exc")
            => IF running THEN pc'["periodic"] = "sleep" /\ wake' = now + INTERVAL
                          ELSE pc'["periodic"] = "done"
       /\ (pc["periodic"] # "done" /\ pc'["periodic"] = "done") => (~running \/ cancel)]_vars

\* C10 witness: a periodic sweep has raised while running is true.
C10_Witness == pc["periodic"] = "exc" /\ running

\* C11: once running is false no new sweep starts: no task enters
\* check_stocks, and no /check is accepted on its way to a sweep.
C11_NoNewSweepAfterStop ==
    [][~running =>
         \A t \in Tasks : /\ InSweep(t)' => InSweep(t)
                          /\ pc'[t] = "ack" => pc[t] = "ack"]_vars

\* C12: a periodic sweep that has handed an alert to send_message is not
\* ended before the delivery is over and the item's last_alert is recorded.
C12_CurrentItemFinished ==
    [][pc["periodic"] = "send" /\ pc'["periodic"] # "send"
          => /\ pc'["periodic"] = "pace"
             /\ price_history'[cur["periodic"].symbol] = now]_vars

\* C13: the watchlist's entries are unique by symbol and every threshold is
\* above 0.
C13_UniquePositiveThresholds ==
    /\ \A i, j \in DOMAIN Items(watched_stocks) :
          Items(watched_stocks)[i].key = Items(watched_stocks)[j].key => i = j
    /\ \A i \in DOMAIN Items(watched_stocks) : Items(watched_stocks)[i].threshold > 0

\* the reference classification: Major when pctChange <= -8, Significant
\* when -8 < pctChange <= -5, Detected otherwise
ReferenceSeverity(pct_change) ==
    IF pct_change <= -800 THEN "MAJOR DIP ALERT"
    ELSE IF -800 < pct_change /\ pct_change <= -500 THEN "SIGNIFICANT DIP"
    ELSE "DIP DETECTED"

\* C14: the severity line of every alert message is the reference
\* classification of its change, both boundaries inclusive: for every
\* observation, and for every message handed to send_message.
C14_SeverityClassification ==
    /\ \A data \in PolicyObservations : severity(data) = ReferenceSeverity(data.pct_change)
    /\ \A t \in Tasks :
          cur[t].symbol # NoSymbol => cur[t].severity = ReferenceSeverity(cur[t].pct_change)

\* C14 witness: an alert for a change of exactly -8 percent, classified Major.
C14_Witness ==
    /\ pc["handler"] = "send"
    /\ cur["handler"].pct_change = -800
    /\ cur["handler"].severity = "MAJOR DIP ALERT"

\* C15: an item's last_alert changes only in the step in which a task's
\* delivery of an alert for that item ends, and then to the current time;
\* every other step (a fetch that failed, an item that did not fire, /add,
\* /remove, /status, /list, a rejected trigger) leaves every last_alert as
\* it was.
C15_LastAlertFrame ==
    [][\A s \in Symbols :
         price_history'[s] # price_history[s]
            => /\ price_history'[s] = now
               /\ \E t \in Tasks :
                     pc[t] = "send" /\ cur[t].symbol = s /\ pc'[t] = "pace"]_vars

\* C15 witness: an item has alerted and has then been removed from the
\* watchlist; its last_alert is still recorded.
C15_Witness ==
    \E s \in Symbols : price_history[s] # NoAlert /\ ~Has(watched_stocks, s)

\* C17: is_checking is true whenever a task is inside check_stocks.
C17_FlagAgreesWithSweeps == \A t \in Tasks : InSweep(t) => is_checking

\* C18: an item that alerted at T and was then removed and added again
\* does not alert again before T + 4 hours.  The periodic sweep began over a
\* watchlist with the item first (so its alert, still in delivery, was the
\* sweep's first step), and the item now stands behind another entry, so it
\* was removed and added again since; no alert of the handler's sweep for
\* the item is then less than COOLDOWN after the periodic one.
C18_CooldownSurvivesReAdd ==
    \A s \in Symbols :
        ( /\ cur["periodic"].symbol = s
          /\ snap["periodic"] # <<>> /\ snap["periodic"][1].key = s
          /\ Has(watched_stocks, s) /\ Keys(watched_stocks)[1] # s
          /\ cur["handler"].symbol = s )
        => cur["handler"].since - cur["periodic"].since >= COOLDOWN

\* C16: once running is false the periodic task eventually ends, from its
\* interval sleep or from inside a sweep, and start_bot gets past
\* `await check_task` to the teardown.
C16_SchedulerEventuallyExits ==
    ~running ~> (pc["periodic"] = "done" /\ main = "stopped")

\* C16 witness: after the stop signal the periodic task has ended, no
\* cancellation is pending, and start_bot is past its wait.
C16_Witness ==
    ~running /\ pc["periodic"] = "done" /\ main = "stopped" /\ ~cancel

\* C19: every sweep that starts ends, and is_checking, once true, becomes
\* false again: whenever the flag is set or a task is inside check_stocks,
\* a state follows in which the flag is clear and no task is inside
\* check_stocks (so no sweep lasts for ever and the flag does not stay set).
C19_SweepEventuallyEnds ==
    (is_checking \/ \E t \in Tasks : InSweep(t))
        ~> (~is_checking /\ \A t \in Tasks : ~InSweep(t))

\* C19 witness: the watchlist was changed by /remove and /add, a sweep has
\* alerted, and no task holds the guard any more: the flag is clear.
C19_Witness ==
    /\ Keys(watched_stocks) = <<"TSLA", "AAPL">>
    /\ price_history["AAPL"] # NoAlert
    /\ \A t \in Tasks : ~Holding(t)
    /\ ~is_checking

=============================================================================
